---- MODULE Spec2Model ----
(***************************************************************************)
(* Model of the CG calculator page (src/pages/CGCalculator.tsx): the       *)
(* surface analysis calculateSurface, the memoised NP / vBar / CG          *)
(* computation `results`, and the page state they are computed from;       *)
(* and of the AI analysis of the Setup page: App's page switch,            *)
(* handleAIAnalyze of OverallSetup and analyzeAircraftSetup.               *)
(*                                                                         *)
(* The useMemo cell.  useMemo keeps a value together with the dependency   *)
(* values it was computed from, and the value is a function of them.  The  *)
(* variable `results` holds those dependency values; resultsValue is the   *)
(* value, ComputeResults of them.                                          *)
(*                                                                         *)
(* Numbers.  A JavaScript number is modelled as an exact rational          *)
(* <<n, d>> in lowest terms with d > 0, extended with the three IEEE-754   *)
(* special values the code can produce by dividing by zero:                *)
(* <<1, 0>> = +Infinity, <<-1, 0>> = -Infinity, <<0, 0>> = NaN.            *)
(* Rounding of binary floating point is not modelled, and zero is          *)
(* unsigned.                                                               *)
(***************************************************************************)
EXTENDS Integers, Sequences, FiniteSets, TLC

VARIABLES
    \* --- page state (useState hooks of CGCalculator) ---
    isFlyingWing, wingRoot, wingPanels, tailRoot, tailPanels,
    distWingTail, staticMargin, tailEff,
    fuseWidth, fuseLength, fuseNose,
    results,
    \* --- one call of calculateSurface, statement by statement ---
    rootChord, panels, idx, acc, divisors, ret,
    \* --- control: which step comes next, and the input events handled ---
    pc, edits,
    \* --- the page App shows, the OverallSetup instance mounted, its analysis
    \* --- state, the API key of the build and the analysis requests started ---
    activePage, instance, isAnalyzing, aiAnalysis, GEMINI_API_KEY, requests

pageVars == <<isFlyingWing, wingRoot, wingPanels, tailRoot, tailPanels,
              distWingTail, staticMargin, tailEff,
              fuseWidth, fuseLength, fuseNose, results>>
callVars == <<rootChord, panels, idx, acc, divisors, ret>>
analysisVars == <<activePage, instance, isAnalyzing, aiAnalysis,
                  GEMINI_API_KEY, requests>>
vars == <<pageVars, callVars, pc, edits, analysisVars>>

-----------------------------------------------------------------------------
(* Arithmetic of JavaScript numbers, exact.                                *)

Abs(n) == IF n < 0 THEN -n ELSE n

Sign(n) == IF n > 0 THEN 1 ELSE IF n < 0 THEN -1 ELSE 0

RECURSIVE GCD(_, _)
GCD(a, b) == IF b = 0 THEN a ELSE GCD(b, a % b)

Norm(n, d) ==
    IF d = 0 THEN <<Sign(n), 0>>
    ELSE LET s == IF d < 0 THEN -1 ELSE 1
             g == GCD(Abs(n), Abs(d))
         IN  <<(s * n) \div g, (s * d) \div g>>

R(n) == <<n, 1>>
Frac(n, d) == Norm(n, d)

Zero == R(0)
One == R(1)
NaN == <<0, 0>>

IsFinite(a) == a[2] # 0
IsNaN(a) == a = NaN

\* Sums and products are formed on cross-reduced terms, which keeps the
\* intermediate integers small; the value is the same.
RAdd(a, b) ==
    IF ~IsFinite(a) /\ ~IsFinite(b)
    THEN (IF a = b THEN a ELSE NaN)
    ELSE IF ~IsFinite(a) THEN a
    ELSE IF ~IsFinite(b) THEN b
    ELSE LET g == GCD(a[2], b[2])
         IN  Norm(a[1] * (b[2] \div g) + b[1] * (a[2] \div g), (a[2] \div g) * b[2])

RNeg(a) == <<-a[1], a[2]>>

RSub(a, b) == RAdd(a, RNeg(b))

RMul(a, b) ==
    IF ~IsFinite(a) \/ ~IsFinite(b)
    THEN <<Sign(a[1]) * Sign(b[1]), 0>>
    ELSE LET g1 == GCD(Abs(a[1]), b[2])
             g2 == GCD(Abs(b[1]), a[2])
         IN  Norm((a[1] \div g1) * (b[1] \div g2), (a[2] \div g2) * (b[2] \div g1))

RInv(a) == IF a[1] < 0 THEN <<-a[2], -a[1]>> ELSE <<a[2], a[1]>>

RDiv(a, b) == RMul(a, RInv(b))

\* a > b: false when either side is NaN, as in IEEE-754.
RGt(a, b) == ~IsNaN(a) /\ ~IsNaN(b) /\ a[1] * b[2] > b[1] * a[2]

-----------------------------------------------------------------------------
(* calculateSurface (CGCalculator.tsx 66-128).  A panel is a record        *)
(* [tip, sweep, span]; the React key `id` of WingPanel takes no part in    *)
(* any computation and is left out.                                        *)

TwoThirds == RDiv(R(2), R(3))
Quarter == Frac(1, 4)

\* Math.pow(x, 2)
Pow2(x) == RMul(x, x)

\* 1. Panel Area (Si)
Si(Cr, panel) == RMul(RDiv(RAdd(Cr, panel.tip), R(2)), panel.span)

\* lambdaEval that divides whatever Cr is.
lambdaEval_Unguarded(Cr, panel) == [v |-> RDiv(panel.tip, Cr), d |-> {Cr}]

\* lambdaEval that takes 1 for Cr = 0 only.
lambdaEval_ZeroOnly(Cr, panel) ==
    IF Cr # Zero
    THEN [v |-> RDiv(panel.tip, Cr), d |-> {Cr}]
    ELSE [v |-> One, d |-> {}]

\* 2. Taper Ratio (lambda), "Avoid division by zero": the value v, and the
\* divisor d of the division evaluated for it, if one is.
lambdaEval(Cr, panel) ==
    IF RGt(Cr, Zero)
    THEN [v |-> RDiv(panel.tip, Cr), d |-> {Cr}]
    ELSE [v |-> One, d |-> {}]

lambda(Cr, panel) == lambdaEval(Cr, panel).v

\* 3. Panel MAC Length (MACi)
\* MACi with the numerator of Y_mac_i: (1 + 2*lambda) for
\* (1 + lambda + lambda^2).
MACi_LinearTaper(Cr, panel) ==
    LET l == lambda(Cr, panel)
    IN  RMul(RMul(TwoThirds, Cr),
             RDiv(RAdd(One, RMul(R(2), l)), RAdd(One, l)))

MACi(Cr, panel) ==
    LET l == lambda(Cr, panel)
    IN  RMul(RMul(TwoThirds, Cr),
             RDiv(RAdd(RAdd(One, l), Pow2(l)), RAdd(One, l)))

\* Y_mac_i that takes b for a half span: (b/3) in place of (b/6).
Y_mac_i_ThirdOfSpan(Cr, panel) ==
    LET l == lambda(Cr, panel)
    IN  RMul(RDiv(panel.span, R(3)),
             RDiv(RAdd(One, RMul(R(2), l)), RAdd(One, l)))

\* 4. Panel MAC Spanwise Position (Y_mac_i) relative to panel root
Y_mac_i(Cr, panel) ==
    LET l == lambda(Cr, panel)
    IN  RMul(RDiv(panel.span, R(6)),
             RDiv(RAdd(One, RMul(R(2), l)), RAdd(One, l)))

\* X_LE_mac_i_localEval that divides whatever b is.
X_LE_mac_i_localEval_Unguarded(Cr, panel) ==
    [v |-> RMul(Y_mac_i(Cr, panel), RDiv(panel.sweep, panel.span)),
     d |-> {panel.span}]

\* 5. Panel MAC LE X Position relative to panel root LE: the sweep
\* interpolated along the span, X = Y * (sweep / b); value and divisor.
X_LE_mac_i_localEval(Cr, panel) ==
    IF RGt(panel.span, Zero)
    THEN [v |-> RMul(Y_mac_i(Cr, panel), RDiv(panel.sweep, panel.span)),
          d |-> {panel.span}]
    ELSE [v |-> Zero, d |-> {}]

X_LE_mac_i_local(Cr, panel) == X_LE_mac_i_localEval(Cr, panel).v

\* X_AC_i that leaves out the LE offset at the panel's root.
X_AC_i_LocalOnly(Cr, X_LE, panel) ==
    RAdd(X_LE_mac_i_local(Cr, panel), RMul(Quarter, MACi(Cr, panel)))

\* 6. Panel AC Position (X_AC_i), from the LE offset at the panel's root
X_AC_i(Cr, X_LE, panel) ==
    RAdd(RAdd(X_LE, X_LE_mac_i_local(Cr, panel)),
         RMul(Quarter, MACi(Cr, panel)))

\* The locals of calculateSurface before the first panel.
InitAcc(root) ==
    [currentRoot |-> root, currentX_LE |-> Zero,
     sumArea |-> Zero, sumAreaMac |-> Zero, sumAreaAcX |-> Zero,
     totalSpanHalf |-> Zero]

\* PanelStep without "Prepare for next panel": currentRoot is not advanced.
PanelStep_RootNotAdvanced(a, panel) ==
    LET Cr == a.currentRoot
        S  == Si(Cr, panel)
    IN  [currentRoot   |-> a.currentRoot,
         currentX_LE   |-> RAdd(a.currentX_LE, panel.sweep),
         sumArea       |-> RAdd(a.sumArea, S),
         sumAreaMac    |-> RAdd(a.sumAreaMac, RMul(S, MACi(Cr, panel))),
         sumAreaAcX    |-> RAdd(a.sumAreaAcX,
                                RMul(S, X_AC_i(Cr, a.currentX_LE, panel))),
         totalSpanHalf |-> RAdd(a.totalSpanHalf, panel.span)]

\* One iteration of panels.forEach.
PanelStep(a, panel) ==
    LET Cr == a.currentRoot
        S  == Si(Cr, panel)
    IN  [currentRoot   |-> panel.tip,
         currentX_LE   |-> RAdd(a.currentX_LE, panel.sweep),
         sumArea       |-> RAdd(a.sumArea, S),
         sumAreaMac    |-> RAdd(a.sumAreaMac, RMul(S, MACi(Cr, panel))),
         sumAreaAcX    |-> RAdd(a.sumAreaAcX,
                                RMul(S, X_AC_i(Cr, a.currentX_LE, panel))),
         totalSpanHalf |-> RAdd(a.totalSpanHalf, panel.span)]

\* The divisors one iteration evaluates: the literals 2 and 6, Cr where the
\* taper ratio is computed, 1 + lambda (in MACi and in Y_mac_i), and b where
\* the sweep is interpolated.
PanelDivisors(Cr, panel) ==
    {R(2), R(6), RAdd(One, lambda(Cr, panel))}
    \cup lambdaEval(Cr, panel).d
    \cup X_LE_mac_i_localEval(Cr, panel).d

\* GuardedMean that divides whatever sumArea is.
GuardedMean_Unguarded(sum, sumArea) == [v |-> RDiv(sum, sumArea), d |-> {sumArea}]

\* GuardedMean that divides by the area of both sides.
GuardedMean_TotalArea(sum, sumArea) ==
    IF RGt(sumArea, Zero)
    THEN [v |-> RDiv(sum, RMul(sumArea, R(2))), d |-> {RMul(sumArea, R(2))}]
    ELSE [v |-> Zero, d |-> {}]

\* globalMAC and globalAcX: sum / sumArea when sumArea > 0, else 0; value and
\* divisor.
GuardedMean(sum, sumArea) ==
    IF RGt(sumArea, Zero)
    THEN [v |-> RDiv(sum, sumArea), d |-> {sumArea}]
    ELSE [v |-> Zero, d |-> {}]

\* The divisors of the two divisions after the loop.
ResultDivisors(a) ==
    GuardedMean(a.sumAreaMac, a.sumArea).d \cup GuardedMean(a.sumAreaAcX, a.sumArea).d

\* The SurfaceAnalysis returned after the loop.
SurfaceResult(a, root) ==
    [area |-> RMul(a.sumArea, R(2)),
     span |-> RMul(a.totalSpanHalf, R(2)),
     mac  |-> GuardedMean(a.sumAreaMac, a.sumArea).v,
     acX  |-> GuardedMean(a.sumAreaAcX, a.sumArea).v,
     rootChord |-> root]

RECURSIVE ForEachPanel(_, _, _)
ForEachPanel(a, ps, i) ==
    IF i > Len(ps) THEN a ELSE ForEachPanel(PanelStep(a, ps[i]), ps, i + 1)

calculateSurface(root, ps) == SurfaceResult(ForEachPanel(InitAcc(root), ps, 1), root)

-----------------------------------------------------------------------------
(* The memoised computation `results` (CGCalculator.tsx 158-208).          *)

\* The tail substituted in flying-wing topology.
ZeroTail == [area |-> Zero, span |-> Zero, mac |-> Zero, acX |-> Zero,
             rootChord |-> Zero]

\* Tail AC X Global = Dist + Tail AC Local
tailAcX_Global(tail, dist) == RAdd(dist, tail.acX)

\* npWingTail with the tail efficiency left out of the denominator.
npWingTail_EffNotInDenominator(wing, tail, dist, eff) ==
    LET numerator   == RAdd(RMul(wing.acX, wing.area),
                            RMul(RMul(tailAcX_Global(tail, dist), tail.area), eff))
        denominator == RAdd(wing.area, tail.area)
    IN  IF RGt(denominator, Zero) THEN RDiv(numerator, denominator) ELSE Zero

\* npWingTail with the tail term not weighted by the tail area.
npWingTail_TailAreaNotInNumerator(wing, tail, dist, eff) ==
    LET numerator   == RAdd(RMul(wing.acX, wing.area),
                            RMul(tailAcX_Global(tail, dist), eff))
        denominator == RAdd(wing.area, RMul(tail.area, eff))
    IN  IF RGt(denominator, Zero) THEN RDiv(numerator, denominator) ELSE Zero

\* Step D: Neutral Point of wing and tail, before the fuselage effect
npWingTail(wing, tail, dist, eff) ==
    LET numerator   == RAdd(RMul(wing.acX, wing.area),
                            RMul(RMul(tailAcX_Global(tail, dist), tail.area), eff))
        denominator == RAdd(wing.area, RMul(tail.area, eff))
    IN  IF RGt(denominator, Zero) THEN RDiv(numerator, denominator) ELSE Zero

\* fuselagePenaltyOf scaled by the fuselage width relative to the initial 8.
fuselagePenaltyOf_FromFuseWidth(wing) ==
    RMul(RMul(wing.mac, Frac(15, 1000)), RDiv(fuseWidth, R(8)))

\* fuselagePenaltyOf that takes 15% of the MAC.
fuselagePenaltyOf_FifteenPercent(wing) == RMul(wing.mac, Frac(15, 100))

\* Step C: Fuselage Effect (Penalty), 1.5% of MAC
fuselagePenaltyOf(wing) == RMul(wing.mac, Frac(15, 1000))

\* vBarOf with the tail arm measured from the wing's leading edge.
vBarOf_ArmFromDatum(wing, tail, dist) ==
    LET lTail == tailAcX_Global(tail, dist)
    IN  IF RGt(wing.area, Zero) /\ RGt(wing.mac, Zero)
        THEN RDiv(RMul(tail.area, lTail), RMul(wing.area, wing.mac))
        ELSE Zero

\* Tail Volume (Vbar)
vBarOf(wing, tail, dist) ==
    LET lTail == RSub(tailAcX_Global(tail, dist), wing.acX)
    IN  IF RGt(wing.area, Zero) /\ RGt(wing.mac, Zero)
        THEN RDiv(RMul(tail.area, lTail), RMul(wing.area, wing.mac))
        ELSE Zero

\* cgPositionOf with a negative static margin clamped to 0.
cgPositionOf_MarginClamped(np, sm, wing) ==
    RSub(np, RMul(RDiv(IF RGt(Zero, sm) THEN Zero ELSE sm, R(100)), wing.mac))

\* Step E: Final CG
cgPositionOf(np, sm, wing) == RSub(np, RMul(RDiv(sm, R(100)), wing.mac))

\* ComputeResults that applies the conventional branch in both topologies.
ComputeResults_AlwaysConventional(fw, wRoot, wPanels, tRoot, tPanels, dist, sm, eff) ==
    LET wing == calculateSurface(wRoot, wPanels)
        tail == calculateSurface(tRoot, tPanels)
        pen  == fuselagePenaltyOf(wing)
        np   == RSub(npWingTail(wing, tail, dist, eff), pen)
        vb   == vBarOf(wing, tail, dist)
    IN  [wing |-> wing, tail |-> tail, npPosition |-> np,
         cgPosition |-> cgPositionOf(np, sm, wing),
         vBar |-> vb, fuselagePenalty |-> pen]

\* ComputeResults that substitutes the zero tail in both topologies.
ComputeResults_TailDefaulted(fw, wRoot, wPanels, tRoot, tPanels, dist, sm, eff) ==
    LET wing == calculateSurface(wRoot, wPanels)
        tail == ZeroTail
        pen  == IF fw THEN Zero ELSE fuselagePenaltyOf(wing)
        np   == IF fw THEN wing.acX
                ELSE RSub(npWingTail(wing, tail, dist, eff), pen)
        vb   == IF fw THEN Zero ELSE vBarOf(wing, tail, dist)
    IN  [wing |-> wing, tail |-> tail, npPosition |-> np,
         cgPosition |-> cgPositionOf(np, sm, wing),
         vBar |-> vb, fuselagePenalty |-> pen]

ComputeResults(fw, wRoot, wPanels, tRoot, tPanels, dist, sm, eff) ==
    LET wing == calculateSurface(wRoot, wPanels)
        tail == IF fw THEN ZeroTail ELSE calculateSurface(tRoot, tPanels)
        pen  == IF fw THEN Zero ELSE fuselagePenaltyOf(wing)
        np   == IF fw THEN wing.acX
                ELSE RSub(npWingTail(wing, tail, dist, eff), pen)
        vb   == IF fw THEN Zero ELSE vBarOf(wing, tail, dist)
    IN  [wing |-> wing, tail |-> tail, npPosition |-> np,
         cgPosition |-> cgPositionOf(np, sm, wing),
         vBar |-> vb, fuselagePenalty |-> pen]

\* The dependency array of the useMemo call.
Deps(fw, wRoot, wPanels, tRoot, tPanels, dist, sm, eff) ==
    [isFlyingWing |-> fw, wingRoot |-> wRoot, wingPanels |-> wPanels,
     tailRoot |-> tRoot, tailPanels |-> tPanels, distWingTail |-> dist,
     staticMargin |-> sm, tailEff |-> eff]

\* The value useMemo holds for the dependency values d.
ResultsOf(d) ==
    ComputeResults(d.isFlyingWing, d.wingRoot, d.wingPanels, d.tailRoot,
                   d.tailPanels, d.distWingTail, d.staticMargin, d.tailEff)

resultsValue == ResultsOf(results)

-----------------------------------------------------------------------------
(* The page after construction (CGCalculator.tsx 131-155).                 *)

Panel(t, sw, sp) == [tip |-> t, sweep |-> sw, span |-> sp]

InitPage ==
    /\ isFlyingWing = FALSE
    /\ wingRoot = R(25)
    /\ wingPanels = <<Panel(R(18), R(4), R(40)), Panel(R(10), R(8), R(30))>>
    /\ tailRoot = R(12)
    /\ tailPanels = <<Panel(R(8), R(3), R(25))>>
    /\ distWingTail = R(65)
    /\ staticMargin = R(10)
    /\ tailEff = Frac(9, 10)
    /\ fuseWidth = R(8)
    /\ fuseLength = R(90)
    /\ fuseNose = R(20)
    /\ results = Deps(isFlyingWing, wingRoot, wingPanels, tailRoot,
                      tailPanels, distWingTail, staticMargin, tailEff)

\* No call of calculateSurface is being stepped through.
NoCall ==
    /\ rootChord = Zero
    /\ panels = <<>>
    /\ idx = 0
    /\ acc = InitAcc(Zero)
    /\ divisors = {}
    /\ ret = ZeroTail

\* The CG page is the one shown; no analysis was ever requested.
NoAnalysis ==
    /\ activePage = "CG"
    /\ instance = 0
    /\ isAnalyzing = FALSE
    /\ aiAnalysis = ""
    /\ GEMINI_API_KEY = ""
    /\ requests = <<>>

-----------------------------------------------------------------------------
(* The page: one action per input event (CGCalculator.tsx 211-234 and the  *)
(* onChange / onClick handlers of 319-438).  Every state change re-renders *)
(* the component, and the render re-evaluates `results` when one of its    *)
(* dependencies changed; both are part of the event's action.              *)

MaxEdits == 2
MaxPanels == 5

\* What can be typed into a number input: NaN stands for text parseFloat
\* does not parse (such as the empty field).
Typed == {NaN, R(0), R(-1), R(2)}

\* parseFloat(e.target.value) || 0
ParseOrZero(v) == IF IsNaN(v) \/ v = Zero THEN Zero ELSE v

Fields == {"tip", "sweep", "span"}

updatePanel(prev, i, field, val) == [prev EXCEPT ![i] = [@ EXCEPT ![field] = val]]

\* addPanel without the limit of five panels.
addPanel_Unlimited(prev) ==
    LET last == prev[Len(prev)]
    IN  Append(prev, Panel(RMul(last.tip, Frac(8, 10)), R(0), R(20)))

addPanel(prev) ==
    IF Len(prev) >= MaxPanels THEN prev
    ELSE LET last == prev[Len(prev)]
         IN  Append(prev, Panel(RMul(last.tip, Frac(8, 10)), R(0), R(20)))

\* removePanel that drops the first panel.
removePanel_DropsFirst(prev) == IF Len(prev) > 1 THEN Tail(prev) ELSE prev

removePanel(prev) == IF Len(prev) > 1 THEN SubSeq(prev, 1, Len(prev) - 1) ELSE prev

\* Rerender with tailEff missing from the dependency array: an event that
\* changes nothing else keeps the memoised value.
Rerender_TailEffNotADependency ==
    IF <<isFlyingWing', wingRoot', wingPanels', tailRoot', tailPanels',
         distWingTail', staticMargin'>>
       = <<isFlyingWing, wingRoot, wingPanels, tailRoot, tailPanels,
           distWingTail, staticMargin>>
    THEN results' = results
    ELSE results' = Deps(isFlyingWing', wingRoot', wingPanels', tailRoot',
                         tailPanels', distWingTail', staticMargin', tailEff')

\* The render after an event that changed a dependency of `results`.
Rerender ==
    results' = Deps(isFlyingWing', wingRoot', wingPanels', tailRoot',
                    tailPanels', distWingTail', staticMargin', tailEff')

Handled ==
    /\ pc = "page"
    /\ edits < MaxEdits
    /\ edits' = edits + 1
    /\ UNCHANGED <<pc, callVars, analysisVars>>

\* SetIsFlyingWing that clears the wing-to-tail distance on the way to a
\* flying wing.
SetIsFlyingWing_ClearsDistance(b) ==
    /\ Handled
    /\ isFlyingWing' = b
    /\ distWingTail' = IF b THEN Zero ELSE distWingTail
    /\ UNCHANGED <<wingRoot, wingPanels, tailRoot, tailPanels,
                   staticMargin, tailEff, fuseWidth, fuseLength, fuseNose>>
    /\ Rerender

SetIsFlyingWing(b) ==
    /\ Handled
    /\ isFlyingWing' = b
    /\ UNCHANGED <<wingRoot, wingPanels, tailRoot, tailPanels, distWingTail,
                   staticMargin, tailEff, fuseWidth, fuseLength, fuseNose>>
    /\ Rerender

SetWingRoot(v) ==
    /\ Handled
    /\ wingRoot' = ParseOrZero(v)
    /\ UNCHANGED <<isFlyingWing, wingPanels, tailRoot, tailPanels, distWingTail,
                   staticMargin, tailEff, fuseWidth, fuseLength, fuseNose>>
    /\ Rerender

SetWingPanels(ps) ==
    /\ Handled
    /\ wingPanels' = ps
    /\ UNCHANGED <<isFlyingWing, wingRoot, tailRoot, tailPanels, distWingTail,
                   staticMargin, tailEff, fuseWidth, fuseLength, fuseNose>>
    /\ Rerender

UpdateWingPanel(i, field, v) ==
    /\ i \in 1..Len(wingPanels)
    /\ SetWingPanels(updatePanel(wingPanels, i, field, ParseOrZero(v)))

AddWingPanel == SetWingPanels(addPanel(wingPanels))

RemoveWingPanel == SetWingPanels(removePanel(wingPanels))

\* The tail, distance, efficiency and fuselage inputs are rendered in
\* conventional topology only.
SetTailRoot(v) ==
    /\ ~isFlyingWing
    /\ Handled
    /\ tailRoot' = ParseOrZero(v)
    /\ UNCHANGED <<isFlyingWing, wingRoot, wingPanels, tailPanels, distWingTail,
                   staticMargin, tailEff, fuseWidth, fuseLength, fuseNose>>
    /\ Rerender

SetTailPanels(ps) ==
    /\ ~isFlyingWing
    /\ Handled
    /\ tailPanels' = ps
    /\ UNCHANGED <<isFlyingWing, wingRoot, wingPanels, tailRoot, distWingTail,
                   staticMargin, tailEff, fuseWidth, fuseLength, fuseNose>>
    /\ Rerender

UpdateTailPanel(i, field, v) ==
    /\ i \in 1..Len(tailPanels)
    /\ SetTailPanels(updatePanel(tailPanels, i, field, ParseOrZero(v)))

AddTailPanel == SetTailPanels(addPanel(tailPanels))

RemoveTailPanel == SetTailPanels(removePanel(tailPanels))

SetDistWingTail(v) ==
    /\ ~isFlyingWing
    /\ Handled
    /\ distWingTail' = ParseOrZero(v)
    /\ UNCHANGED <<isFlyingWing, wingRoot, wingPanels, tailRoot, tailPanels,
                   staticMargin, tailEff, fuseWidth, fuseLength, fuseNose>>
    /\ Rerender

SetStaticMargin(v) ==
    /\ Handled
    /\ staticMargin' = ParseOrZero(v)
    /\ UNCHANGED <<isFlyingWing, wingRoot, wingPanels, tailRoot, tailPanels,
                   distWingTail, tailEff, fuseWidth, fuseLength, fuseNose>>
    /\ Rerender

SetTailEff(v) ==
    /\ ~isFlyingWing
    /\ Handled
    /\ tailEff' = ParseOrZero(v)
    /\ UNCHANGED <<isFlyingWing, wingRoot, wingPanels, tailRoot, tailPanels,
                   distWingTail, staticMargin, fuseWidth, fuseLength, fuseNose>>
    /\ Rerender

\* The fuselage fields are no dependency of `results`: the memoised value is
\* kept.
SetFuseWidth(v) ==
    /\ ~isFlyingWing
    /\ Handled
    /\ fuseWidth' = ParseOrZero(v)
    /\ UNCHANGED <<isFlyingWing, wingRoot, wingPanels, tailRoot, tailPanels,
                   distWingTail, staticMargin, tailEff, fuseLength, fuseNose, results>>

SetFuseLength(v) ==
    /\ ~isFlyingWing
    /\ Handled
    /\ fuseLength' = ParseOrZero(v)
    /\ UNCHANGED <<isFlyingWing, wingRoot, wingPanels, tailRoot, tailPanels,
                   distWingTail, staticMargin, tailEff, fuseWidth, fuseNose, results>>

SetFuseNose(v) ==
    /\ ~isFlyingWing
    /\ Handled
    /\ fuseNose' = ParseOrZero(v)
    /\ UNCHANGED <<isFlyingWing, wingRoot, wingPanels, tailRoot, tailPanels,
                   distWingTail, staticMargin, tailEff, fuseWidth, fuseLength, results>>

Init ==
    /\ InitPage
    /\ NoCall
    /\ pc = "page"
    /\ edits = 0
    /\ NoAnalysis

Next ==
    \/ \E b \in BOOLEAN : SetIsFlyingWing(b)
    \/ \E v \in Typed : SetWingRoot(v)
    \/ \E i \in 1..MaxPanels, f \in Fields, v \in Typed : UpdateWingPanel(i, f, v)
    \/ AddWingPanel
    \/ RemoveWingPanel
    \/ \E v \in Typed : SetTailRoot(v)
    \/ \E i \in 1..MaxPanels, f \in Fields, v \in Typed : UpdateTailPanel(i, f, v)
    \/ AddTailPanel
    \/ RemoveTailPanel
    \/ \E v \in Typed : SetDistWingTail(v)
    \/ \E v \in Typed : SetStaticMargin(v)
    \/ \E v \in Typed : SetTailEff(v)
    \/ \E v \in Typed : SetFuseWidth(v)
    \/ \E v \in Typed : SetFuseLength(v)
    \/ \E v \in Typed : SetFuseNose(v)

Spec == Init /\ [][Next]_vars

\* The page after the + button of the wing, or that of the tail, has been
\* pressed k times: the list after k calls of addPanel.
RECURSIVE Grown(_, _)
Grown(ps, k) == IF k = 0 THEN ps ELSE Grown(addPanel(ps), k - 1)

InitPanels ==
    /\ isFlyingWing = FALSE
    /\ wingRoot = R(25)
    /\ tailRoot = R(12)
    /\ \E k \in 0..MaxPanels :
           LET wing0 == <<Panel(R(18), R(4), R(40)), Panel(R(10), R(8), R(30))>>
               tail0 == <<Panel(R(8), R(3), R(25))>>
           IN  \/ wingPanels = Grown(wing0, k) /\ tailPanels = tail0
               \/ wingPanels = wing0 /\ tailPanels = Grown(tail0, k)
    /\ distWingTail = R(65)
    /\ staticMargin = R(10)
    /\ tailEff = Frac(9, 10)
    /\ fuseWidth = R(8)
    /\ fuseLength = R(90)
    /\ fuseNose = R(20)
    /\ results = Deps(isFlyingWing, wingRoot, wingPanels, tailRoot,
                      tailPanels, distWingTail, staticMargin, tailEff)
    /\ NoCall
    /\ pc = "page"
    /\ edits = 0
    /\ NoAnalysis

SpecPanels == InitPanels /\ [][Next]_vars


-----------------------------------------------------------------------------
(* One call of calculateSurface, one forEach iteration per step, on        *)
(* arguments drawn from bounded sets.                                      *)

MaxLen == 2

RootChords == {R(0), R(1), R(2)}
TipChords == {R(-1), R(0), R(1), R(2)}
Sweeps == {R(-1), R(0), R(1)}
Spans == {R(-1), R(0), R(2)}

PanelSet == {Panel(t, sw, sp) : t \in TipChords, sw \in Sweeps, sp \in Spans}

PanelSeqs == UNION {[1..n -> PanelSet] : n \in 1..MaxLen}

\* A tapered, swept single-panel wing of realistic size.
TaperedWing == <<R(25), <<Panel(R(10), R(8), R(70))>>>>

SurfaceCalls == (RootChords \X PanelSeqs) \cup {TaperedWing}

InitSurface ==
    /\ InitPage
    /\ \E call \in SurfaceCalls : rootChord = call[1] /\ panels = call[2]
    /\ idx = 1
    /\ acc = InitAcc(rootChord)
    /\ divisors = {}
    /\ ret = ZeroTail
    /\ pc = "loop"
    /\ edits = 0
    /\ NoAnalysis

IteratePanel ==
    /\ pc = "loop"
    /\ idx <= Len(panels)
    /\ acc' = PanelStep(acc, panels[idx])
    /\ divisors' = divisors \cup PanelDivisors(acc.currentRoot, panels[idx])
    /\ idx' = idx + 1
    /\ UNCHANGED <<pageVars, rootChord, panels, ret, pc, edits, analysisVars>>

ReturnSurface ==
    /\ pc = "loop"
    /\ idx > Len(panels)
    /\ ret' = SurfaceResult(acc, rootChord)
    /\ divisors' = divisors \cup ResultDivisors(acc)
    /\ pc' = "done"
    /\ UNCHANGED <<pageVars, rootChord, panels, idx, acc, edits, analysisVars>>

NextSurface == IteratePanel \/ ReturnSurface

SpecSurface == InitSurface /\ [][NextSurface]_vars

-----------------------------------------------------------------------------
(* One evaluation of `results` on page inputs drawn from bounded sets.     *)

WingRoots == {R(-1), R(0), R(1), R(2)}
WingPanelSet == {Panel(t, sw, sp) : t \in {R(0), R(1), R(2)}, sw \in {R(0), R(1)},
                                    sp \in {R(-1), R(0), R(1)}}
TailRoots == {R(0), R(1), R(2)}
TailPanelSet == {Panel(t, sw, sp) : t \in {R(0), R(1)}, sw \in {R(0), R(1)},
                                    sp \in {R(-1), R(0), R(1)}}
Distances == {R(-1), R(0), R(3)}
Efficiencies == {R(-1), R(0), Frac(9, 10)}
Margins == {R(-5), R(10)}

\* Before the first render the cell holds nothing of the inputs.
NotRendered == Deps(FALSE, Zero, <<Panel(Zero, Zero, Zero)>>, Zero,
                    <<Panel(Zero, Zero, Zero)>>, Zero, Zero, Zero)

\* A conventional aircraft of realistic size: wing area 1000, MAC 20 and
\* AC 6; tail area 250 with its AC 68 behind the wing's leading edge.
ConventionalAircraft ==
    /\ isFlyingWing = FALSE
    /\ wingRoot = R(20)
    /\ wingPanels = <<Panel(R(20), R(4), R(25))>>
    /\ tailRoot = R(4)
    /\ tailPanels = <<Panel(R(4), R(0), Frac(125, 4))>>
    /\ distWingTail = R(67)
    /\ staticMargin = R(10)
    /\ tailEff = Frac(9, 10)

\* A conventional aircraft whose first wing panel tapers from chord 1 to
\* chord -1, followed by a panel of positive area.
ReflexedWing ==
    /\ isFlyingWing = FALSE
    /\ wingRoot = R(1)
    /\ wingPanels = <<Panel(R(-1), R(0), R(2)), Panel(R(2), R(0), R(2))>>
    /\ tailRoot = R(1)
    /\ tailPanels = <<Panel(R(1), R(0), R(1))>>
    /\ distWingTail = R(3)
    /\ staticMargin = R(10)
    /\ tailEff = Frac(9, 10)

InitBalance ==
    /\ \/ /\ isFlyingWing \in BOOLEAN
          /\ wingRoot \in WingRoots
          /\ wingPanels \in {<<p>> : p \in WingPanelSet}
          /\ tailRoot \in TailRoots
          /\ tailPanels \in {<<p>> : p \in TailPanelSet}
          /\ distWingTail \in Distances
          /\ staticMargin \in Margins
          /\ tailEff \in Efficiencies
       \/ ConventionalAircraft
       \/ ReflexedWing
    /\ fuseWidth = R(8)
    /\ fuseLength = R(90)
    /\ fuseNose = R(20)
    /\ results = NotRendered
    /\ NoCall
    /\ pc = "render"
    /\ edits = 0
    /\ NoAnalysis

RenderResults ==
    /\ pc = "render"
    /\ results' = Deps(isFlyingWing, wingRoot, wingPanels, tailRoot,
                       tailPanels, distWingTail, staticMargin, tailEff)
    /\ pc' = "shown"
    /\ UNCHANGED <<isFlyingWing, wingRoot, wingPanels, tailRoot, tailPanels,
                   distWingTail, staticMargin, tailEff,
                   fuseWidth, fuseLength, fuseNose, callVars, edits,
                   analysisVars>>

NextBalance == RenderResults

SpecBalance == InitBalance /\ [][NextBalance]_vars

-----------------------------------------------------------------------------
(* Closed forms the claims about calculateSurface are stated with: panel   *)
(* i is addressed by position, nothing is carried from panel to panel.     *)

RECURSIVE SeqSum(_)
SeqSum(q) == IF q = <<>> THEN Zero ELSE RAdd(Head(q), SeqSum(Tail(q)))

\* Cr_i: the tip chord of panel i-1, the surface root chord for panel 1.
RootOf(root, ps, i) == IF i = 1 THEN root ELSE ps[i - 1].tip

\* The sum of the sweeps of the panels before panel i.
SweepBefore(ps, i) == SeqSum([j \in 1..(i - 1) |-> ps[j].sweep])

\* (Cr_i + Ct_i)/2 * b_i
Trapezoid(root, ps, i) ==
    RMul(RDiv(RAdd(RootOf(root, ps, i), ps[i].tip), R(2)), ps[i].span)

SumS(root, ps) == SeqSum([i \in 1..Len(ps) |-> Trapezoid(root, ps, i)])

SumSMac(root, ps) ==
    SeqSum([i \in 1..Len(ps) |->
              RMul(Trapezoid(root, ps, i), MACi(RootOf(root, ps, i), ps[i]))])

SumSAc(root, ps) ==
    SeqSum([i \in 1..Len(ps) |->
              RMul(Trapezoid(root, ps, i),
                   X_AC_i(RootOf(root, ps, i), SweepBefore(ps, i), ps[i]))])

NonNeg(a) == IsFinite(a) /\ a[1] >= 0
Positive(a) == IsFinite(a) /\ a[1] > 0

Returned == pc = "done"

\* C5: for every root chord and every non-empty panel sequence the returned
\* area is 2 * Sum_i((Cr_i + Ct_i)/2 * b_i) and the returned span is
\* 2 * Sum_i(b_i), Cr_i being the tip chord of panel i-1 (the surface root
\* chord for the first panel).
C5_AreaSpanSums ==
    Returned =>
        /\ ret.area = RMul(R(2), SumS(rootChord, panels))
        /\ ret.span = RMul(R(2), SeqSum([i \in 1..Len(panels) |-> panels[i].span]))

\* A two-panel surface whose second panel starts at a chord other than the
\* surface root chord has been analysed.
C5_Witness ==
    /\ Returned
    /\ Len(panels) = 2
    /\ panels[1].tip # rootChord
    /\ Positive(panels[2].span)
    /\ Positive(ret.area)

\* C4 as stated: for a non-negative root chord and any non-empty panel
\* sequence, mac = Sum(Si*MACi)/Sum(Si) and acX = Sum(Si*ACi)/Sum(Si)
\* whenever Sum(Si) is non-zero, and mac = 0 and acX = 0 when Sum(Si) = 0.
C4_AsStated ==
    (Returned /\ NonNeg(rootChord)) =>
        LET sumS == SumS(rootChord, panels)
        IN  IF sumS # Zero
            THEN /\ ret.mac = RDiv(SumSMac(rootChord, panels), sumS)
                 /\ ret.acX = RDiv(SumSAc(rootChord, panels), sumS)
            ELSE ret.mac = Zero /\ ret.acX = Zero

\* C4, amended: for a non-negative root chord and any non-empty panel
\* sequence, mac and acX are the area-weighted means Sum(Si*MACi)/Sum(Si) and
\* Sum(Si*ACi)/Sum(Si) whenever Sum(Si) > 0, and both are 0 when
\* Sum(Si) <= 0.
C4_WeightedMeans ==
    (Returned /\ NonNeg(rootChord)) =>
        LET sumS == SumS(rootChord, panels)
        IN  IF RGt(sumS, Zero)
            THEN /\ ret.mac = RDiv(SumSMac(rootChord, panels), sumS)
                 /\ ret.acX = RDiv(SumSAc(rootChord, panels), sumS)
            ELSE ret.mac = Zero /\ ret.acX = Zero

\* Two panels of different MAC and positive area have been averaged.
C4_Witness ==
    /\ Returned
    /\ NonNeg(rootChord)
    /\ Len(panels) = 2
    /\ Positive(Trapezoid(rootChord, panels, 1))
    /\ Positive(Trapezoid(rootChord, panels, 2))
    /\ MACi(rootChord, panels[1]) # MACi(panels[1].tip, panels[2])
    /\ Positive(ret.mac)
    /\ ret.acX # Zero

Untapered ==
    /\ Len(panels) = 1
    /\ panels[1].tip = rootChord
    /\ Positive(rootChord)
    /\ Positive(panels[1].span)

\* C8: for a single-panel surface with tipChord = rootChord > 0 and
\* span > 0, the returned mac is the root chord, for every sweep value.
C8_UntaperedMac == (Returned /\ Untapered) => ret.mac = rootChord

\* An untapered single panel with a non-zero sweep has been analysed.
C8_Witness == Returned /\ Untapered /\ panels[1].sweep # Zero

\* C9 as stated: for a single-panel surface with tipChord = rootChord > 0
\* and span > 0, the MAC leading edge lies at span/2 spanwise, and acX is the
\* sweep interpolated at that station, sweep * (span/2)/span, plus
\* 0.25 * rootChord.
C9_AsStated ==
    (Returned /\ Untapered) =>
        LET station == RDiv(panels[1].span, R(2))
        IN  /\ Y_mac_i(rootChord, panels[1]) = station
            /\ ret.acX = RAdd(RMul(panels[1].sweep, RDiv(station, panels[1].span)),
                              RMul(Quarter, rootChord))

AllNonNeg(ps) ==
    \A i \in 1..Len(ps) :
        NonNeg(ps[i].tip) /\ NonNeg(ps[i].span) /\ NonNeg(ps[i].sweep)

\* C10: for rootChord = 0 and non-negative tip chords, spans and sweeps, no
\* division is evaluated with a zero divisor, the returned mac, acX and area
\* are finite, and the taper ratio of a panel whose local root chord is 0 is 1.
C10_ZeroRootFinite ==
    (Returned /\ rootChord = Zero /\ AllNonNeg(panels)) =>
        /\ Zero \notin divisors
        /\ IsFinite(ret.mac) /\ IsFinite(ret.acX) /\ IsFinite(ret.area)
        /\ \A i \in 1..Len(panels) :
               RootOf(rootChord, panels, i) = Zero
                   => lambda(RootOf(rootChord, panels, i), panels[i]) = One

\* A zero root chord followed by a panel of positive chord, span and sweep,
\* and a second panel, has been analysed.
C10_Witness ==
    /\ Returned
    /\ rootChord = Zero
    /\ AllNonNeg(panels)
    /\ Len(panels) = 2
    /\ Positive(panels[1].tip) /\ Positive(panels[1].span) /\ Positive(panels[1].sweep)
    /\ Positive(ret.mac)

AllChordsZero ==
    rootChord = Zero /\ \A i \in 1..Len(panels) : panels[i].tip = Zero

\* C11: when the root chord and every panel tip chord are 0, for any spans
\* and sweeps and any number of panels, the returned area, mac and acX are 0
\* and no division is evaluated with a zero divisor.
C11_ZeroChords ==
    (Returned /\ AllChordsZero) =>
        /\ ret.area = Zero /\ ret.mac = Zero /\ ret.acX = Zero
        /\ Zero \notin divisors

\* A chordless surface of two panels, one of positive span and non-zero
\* sweep, the other of zero span, has been analysed.
C11_Witness ==
    /\ Returned /\ AllChordsZero
    /\ Len(panels) = 2
    /\ Positive(panels[1].span) /\ panels[1].sweep # Zero
    /\ panels[2].span = Zero /\ panels[2].sweep # Zero

\* C12 as stated: for every numeric input, negative or nonsensical chords,
\* spans and sweeps included, the surface analysis is computed through and
\* every division it evaluates has a non-zero divisor.
C12_AsStated == Returned => Zero \notin divisors

\* C14 as stated: every returned SurfaceAnalysis carries aspectRatio =
\* span^2 / area, computed from the full-surface span and area, and
\* aspectRatio = 0 when area = 0.
C14_AsStated ==
    Returned =>
        /\ "aspectRatio" \in DOMAIN ret
        /\ ret.aspectRatio = IF ret.area = Zero THEN Zero
                              ELSE RDiv(Pow2(ret.span), ret.area)

IsTaperedWing == <<rootChord, panels>> = TaperedWing

\* C18: for root chord 25 and the single panel {tip 10, sweep 8, span 70}
\* the returned area is 2450, the span 140, the mac
\* (2/3)*25*(1+0.4+0.16)/1.4 = 130/7, and acX is Ymac*(8/70) + 0.25*mac with
\* Ymac = (70/6)*(1+0.8)/1.4, that is 89/14.
C18_TaperedWing ==
    (Returned /\ IsTaperedWing) =>
        LET mac  == RMul(RMul(TwoThirds, R(25)),
                         RDiv(RAdd(RAdd(One, Frac(4, 10)), Frac(16, 100)),
                              Frac(14, 10)))
            Ymac == RMul(RDiv(R(70), R(6)),
                         RDiv(RAdd(One, Frac(8, 10)), Frac(14, 10)))
        IN  /\ ret.area = R(2450)
            /\ ret.span = R(140)
            /\ mac = Frac(130, 7)
            /\ ret.mac = mac
            /\ ret.acX = RAdd(RMul(Ymac, RDiv(R(8), R(70))), RMul(Quarter, mac))
            /\ ret.acX = Frac(89, 14)

\* The tapered wing has been analysed.
C18_Witness == Returned /\ IsTaperedWing /\ Positive(ret.acX)

\* (2/3) * Cr * (1 + l + l^2) / (1 + l)
TaperedMac(Cr, l) ==
    RDiv(RMul(RMul(Frac(2, 3), Cr), RAdd(RAdd(One, l), RMul(l, l))), RAdd(One, l))

\* The iteration for panels[idx] takes the taper ratio l and adds the
\* panel's area times the MAC length of that taper ratio to sumAreaMac.
IteratesWith(l) ==
    /\ lambda(acc.currentRoot, panels[idx]) = l
    /\ acc'.sumAreaMac
         = RAdd(acc.sumAreaMac,
                RMul(RMul(RDiv(RAdd(acc.currentRoot, panels[idx].tip), R(2)),
                          panels[idx].span),
                     TaperedMac(acc.currentRoot, l)))

\* C20 as stated: for each panel with local root chord Cr and tip chord Ct
\* the taper ratio used is lambda = Ct/Cr, with lambda = 1 exactly when
\* Cr = 0, and the panel MAC length used is
\* (2/3) * Cr * (1 + lambda + lambda^2) / (1 + lambda).
C20_AsStated ==
    [][IteratePanel =>
         IteratesWith(IF acc.currentRoot = Zero THEN One
                      ELSE RDiv(panels[idx].tip, acc.currentRoot))]_vars

\* C20, amended: for each panel with local root chord Cr and tip chord Ct
\* the taper ratio used is lambda = Ct/Cr when Cr > 0 and lambda = 1 when
\* Cr <= 0, and the panel MAC length used is
\* (2/3) * Cr * (1 + lambda + lambda^2) / (1 + lambda).
C20_TaperRatio ==
    [][IteratePanel =>
         IteratesWith(IF RGt(acc.currentRoot, Zero)
                      THEN RDiv(panels[idx].tip, acc.currentRoot)
                      ELSE One)]_vars

\* A tapered panel of positive root chord and then a panel whose local root
\* chord is negative have been iterated over.
C20_Witness ==
    /\ pc = "loop" /\ idx = 3
    /\ rootChord = R(2)
    /\ panels[1].tip = R(-1) /\ Positive(panels[1].span)
    /\ panels[2].tip = R(2) /\ Positive(panels[2].span)
    /\ IsFinite(acc.sumAreaMac) /\ acc.sumAreaMac # Zero

\* Ymac_i = (b/6) * (1 + 2*lambda)/(1 + lambda) of panels[idx].
YmacOfPanel ==
    LET l == lambda(acc.currentRoot, panels[idx])
    IN  RMul(RDiv(panels[idx].span, R(6)),
             RDiv(RAdd(One, RMul(R(2), l)), RAdd(One, l)))

\* The iteration for panels[idx] accumulates the panel's area times
\* ACi = (sum of the sweeps before) + middle + 0.25 * MACi, and advances the
\* leading-edge offset by the sweep and the local root chord to the tip.
AccumulatesAc(middle) ==
    LET p   == panels[idx]
        Cr  == acc.currentRoot
        ACi == RAdd(RAdd(SweepBefore(panels, idx), middle),
                    RMul(Quarter, TaperedMac(Cr, lambda(Cr, p))))
    IN  /\ acc'.sumAreaAcX
             = RAdd(acc.sumAreaAcX,
                    RMul(RMul(RDiv(RAdd(Cr, p.tip), R(2)), p.span), ACi))
        /\ acc'.currentX_LE = RAdd(acc.currentX_LE, p.sweep)
        /\ acc'.currentX_LE = SweepBefore(panels, idx + 1)
        /\ acc'.currentRoot = p.tip

\* C21 as stated: for panel i of any sequence the accumulated aerodynamic
\* centre is ACi = (sum of sweeps of panels before i) + Ymac_i * (s_i / b_i)
\* + 0.25 * MACi, the middle term being 0 when b_i = 0; the leading-edge
\* offset advances by s_i and the local root chord to Ct_i.
C21_AsStated ==
    [][IteratePanel =>
         AccumulatesAc(IF panels[idx].span = Zero THEN Zero
                       ELSE RMul(YmacOfPanel,
                                 RDiv(panels[idx].sweep, panels[idx].span)))]_vars

\* C21, amended: as above, the middle term being Ymac_i * (s_i / b_i) when
\* b_i > 0 and 0 when b_i <= 0.
C21_PanelAc ==
    [][IteratePanel =>
         AccumulatesAc(IF RGt(panels[idx].span, Zero)
                       THEN RMul(YmacOfPanel,
                                 RDiv(panels[idx].sweep, panels[idx].span))
                       ELSE Zero)]_vars

\* A swept first panel and then a swept second panel of positive area have
\* been iterated over.
C21_Witness ==
    /\ pc = "loop" /\ idx = 3
    /\ panels[1].sweep # Zero
    /\ panels[2].sweep # Zero /\ Positive(panels[2].span)
    /\ Positive(Trapezoid(rootChord, panels, 2))
    /\ acc.currentX_LE # Zero
    /\ IsFinite(acc.sumAreaAcX) /\ acc.sumAreaAcX # Zero


\* A single panel with non-negative chords and positive span has returned.
OneTrapezoid ==
    /\ Returned
    /\ Len(panels) = 1
    /\ NonNeg(rootChord)
    /\ NonNeg(panels[1].tip)
    /\ Positive(panels[1].span)

\* The same call with root chord and tip chord exchanged.
ChordsSwapped ==
    calculateSurface(panels[1].tip, <<[panels[1] EXCEPT !.tip = rootChord]>>)

\* C30 as stated: for a single panel with non-negative chords and positive
\* span, exchanging root chord and tip chord changes neither area nor mac,
\* also when one of the two chords is 0.
C30_AsStated ==
    OneTrapezoid =>
        /\ ret.area = ChordsSwapped.area
        /\ ret.mac = ChordsSwapped.mac

\* C30, amended: exchanging the chords never changes area, and leaves mac
\* unchanged when both chords are positive or both are 0; with the root
\* chord 0 and the tip chord c > 0 the mac is 0, and with the root chord
\* c > 0 and the tip chord 0 it is (2/3) * c.
C30_ChordPair ==
    OneTrapezoid =>
        /\ ret.area = ChordsSwapped.area
        /\ (rootChord = Zero) = (panels[1].tip = Zero) =>
               ret.mac = ChordsSwapped.mac
        /\ rootChord = Zero /\ panels[1].tip # Zero =>
               /\ ret.mac = Zero
               /\ ChordsSwapped.mac = RMul(TwoThirds, panels[1].tip)
        /\ rootChord # Zero /\ panels[1].tip = Zero =>
               /\ ret.mac = RMul(TwoThirds, rootChord)
               /\ ChordsSwapped.mac = Zero

\* Root chord 1, tip chord 2, span 2: mac = (2/3) * 7/3 either way round.
C30_Witness ==
    /\ OneTrapezoid
    /\ rootChord = R(1)
    /\ panels[1].tip = R(2)
    /\ ret.mac = Frac(14, 9)
    /\ ChordsSwapped.mac = Frac(14, 9)

-----------------------------------------------------------------------------
(* Claims about the NP / vBar / CG computation.  In each, r is the value   *)
(* of `results` that the render has produced.                              *)

Shown == pc = "shown"

\* D = wing.area + tail.area * tailEff
WeightedArea(r) == RAdd(r.wing.area, RMul(r.tail.area, tailEff))

\* (wing.acX*wing.area + tailAcGlobal*tail.area*tailEff) / D - 0.015*wing.mac,
\* with tailAcGlobal = distWingTail + tail.acX
WeightedNp(r) ==
    LET tailAcGlobal == RAdd(distWingTail, r.tail.acX)
    IN  RSub(RDiv(RAdd(RMul(r.wing.acX, r.wing.area),
                       RMul(tailAcGlobal, RMul(r.tail.area, tailEff))),
                  WeightedArea(r)),
             RMul(Frac(15, 1000), r.wing.mac))

UnweightedNp(r) == RSub(Zero, RMul(Frac(15, 1000), r.wing.mac))

\* C1 as stated: in conventional topology npPosition is the weighted mean of
\* the two aerodynamic centres less 0.015*wing.mac whenever D is non-zero,
\* and 0 - 0.015*wing.mac when D is zero.
C1_AsStated ==
    (Shown /\ ~isFlyingWing) =>
        LET r == resultsValue
        IN  r.npPosition = IF WeightedArea(r) # Zero THEN WeightedNp(r)
                           ELSE UnweightedNp(r)

\* C1, amended: in conventional topology npPosition is the weighted mean of
\* the two aerodynamic centres less 0.015*wing.mac whenever D > 0, and
\* 0 - 0.015*wing.mac when D <= 0.
C1_NeutralPoint ==
    (Shown /\ ~isFlyingWing) =>
        LET r == resultsValue
        IN  r.npPosition = IF RGt(WeightedArea(r), Zero) THEN WeightedNp(r)
                           ELSE UnweightedNp(r)

\* A conventional layout with a wing and a tail of positive area, a
\* fractional tail efficiency and a positive distance has been computed.
C1_Witness ==
    /\ Shown /\ ~isFlyingWing
    /\ tailEff = Frac(9, 10)
    /\ Positive(distWingTail)
    /\ LET r == resultsValue
       IN  /\ Positive(r.wing.area) /\ Positive(r.tail.area)
           /\ Positive(r.wing.mac)
           /\ r.npPosition # r.wing.acX

\* staticMargin percent of the wing MAC
MarginLength(r) == RMul(RDiv(staticMargin, R(100)), r.wing.mac)

\* C2: in both topologies cgPosition = npPosition - (staticMargin/100) *
\* wing.mac, so that NP - CG is staticMargin percent of the wing MAC, for
\* every static margin (no clamping).
C2_StaticMargin ==
    Shown =>
        LET r == resultsValue
        IN  /\ r.cgPosition = RSub(r.npPosition, MarginLength(r))
            /\ RSub(r.npPosition, r.cgPosition) = MarginLength(r)

\* A negative static margin has put the CG behind the NP.
C2_Witness ==
    /\ Shown
    /\ staticMargin = R(-5)
    /\ LET r == resultsValue
       IN  Positive(r.wing.mac) /\ RGt(r.cgPosition, r.npPosition)

\* Tail inputs that leave the tail without area, at the wing's leading edge.
RefTailRoot == Zero
RefTailPanels == <<Panel(Zero, Zero, Zero)>>

BalanceOf(r) == <<r.npPosition, r.cgPosition, r.vBar, r.fuselagePenalty>>

\* C3: in flying-wing topology npPosition = wing.acX, vBar = 0 and
\* fuselagePenalty = 0 whatever tailRoot, tailPanels, distWingTail and
\* tailEff are: NP, CG, vBar and fuselagePenalty are those of the
\* configuration with the same wing and margin and the reference tail inputs.
C3_FlyingWing ==
    (Shown /\ isFlyingWing) =>
        LET r == resultsValue
        IN  /\ r.npPosition = r.wing.acX
            /\ r.vBar = Zero
            /\ r.fuselagePenalty = Zero
            /\ BalanceOf(r) =
                 BalanceOf(ComputeResults(TRUE, wingRoot, wingPanels, RefTailRoot,
                                          RefTailPanels, Zero, staticMargin, One))

\* A flying wing has been computed while the tail inputs describe a tail of
\* positive area behind the wing.
C3_Witness ==
    /\ Shown /\ isFlyingWing
    /\ Positive(calculateSurface(tailRoot, tailPanels).area)
    /\ Positive(distWingTail)
    /\ tailEff = Frac(9, 10)
    /\ LET r == resultsValue
       IN  Positive(r.wing.mac) /\ Positive(r.wing.acX)

\* C6: in conventional topology, whenever the tail analysis has area 0,
\* npPosition = wing.acX - fuselagePenalty and vBar = 0.
C6_NoTailArea ==
    (Shown /\ ~isFlyingWing) =>
        LET r == resultsValue
        IN  r.tail.area = Zero =>
                /\ r.npPosition = RSub(r.wing.acX, r.fuselagePenalty)
                /\ r.vBar = Zero

\* A tail of zero area behind a wing of positive area.
C6_Witness ==
    /\ Shown /\ ~isFlyingWing
    /\ Positive(distWingTail)
    /\ tailEff = Frac(9, 10)
    /\ tailRoot # Zero
    /\ LET r == resultsValue
       IN  /\ r.tail.area = Zero
           /\ Positive(r.wing.area) /\ Positive(r.wing.mac)

\* (tail.area * (distWingTail + tail.acX - wing.acX)) / (wing.area * wing.mac)
TailVolume(r) ==
    RDiv(RMul(r.tail.area, RSub(RAdd(distWingTail, r.tail.acX), r.wing.acX)),
         RMul(r.wing.area, r.wing.mac))

\* C7 as stated: in conventional topology vBar is the tail volume whenever
\* wing.area and wing.mac are both non-zero, and 0 when either is 0.
C7_AsStated ==
    (Shown /\ ~isFlyingWing) =>
        LET r == resultsValue
        IN  r.vBar = IF r.wing.area # Zero /\ r.wing.mac # Zero
                     THEN TailVolume(r) ELSE Zero

\* C7, amended: in conventional topology vBar is the tail volume whenever
\* wing.area and wing.mac are both > 0, and 0 otherwise.
C7_TailVolume ==
    (Shown /\ ~isFlyingWing) =>
        LET r == resultsValue
        IN  r.vBar = IF RGt(r.wing.area, Zero) /\ RGt(r.wing.mac, Zero)
                     THEN TailVolume(r) ELSE Zero

\* A tail volume other than 0 has been computed for a swept wing.
C7_Witness ==
    /\ Shown /\ ~isFlyingWing
    /\ wingPanels[1].sweep # Zero
    /\ LET r == resultsValue
       IN  /\ Positive(r.wing.area) /\ Positive(r.wing.mac)
           /\ Positive(r.tail.area)
           /\ r.vBar # Zero

\* C13: in every state with isFlyingWing = false the tail inputs describe a
\* surface, the tail analysis in use is the one obtained from them, and the
\* NP and vBar are computed from that analysis, never from an absent or a
\* substituted zero tail.
C13_TailFromInputs ==
    (Shown /\ ~isFlyingWing) =>
        LET r    == resultsValue
            tail == calculateSurface(tailRoot, tailPanels)
        IN  /\ Len(tailPanels) >= 1
            /\ r.tail = tail
            /\ r.npPosition = RSub(npWingTail(r.wing, tail, distWingTail, tailEff),
                                   r.fuselagePenalty)
            /\ r.vBar = vBarOf(r.wing, tail, distWingTail)

\* A conventional layout whose tail has positive area and moves the neutral
\* point off the wing's aerodynamic centre has been computed.
C13_Witness ==
    /\ Shown /\ ~isFlyingWing
    /\ Positive(tailEff) /\ Positive(distWingTail)
    /\ LET r == resultsValue
       IN  /\ Positive(r.tail.area) /\ Positive(r.tail.mac)
           /\ r.tail # ZeroTail
           /\ Positive(r.wing.area)
           /\ r.npPosition # RSub(r.wing.acX, r.fuselagePenalty)

\* x rounded to two decimals, halves upwards.
Round2(x) == Frac((2 * 100 * x[1] + x[2]) \div (2 * x[2]), 100)

\* C19: for a conventional aircraft with wing AC 6, global tail AC 68, wing
\* area 1000, tail area 250, tail efficiency 0.9 and wing MAC 20, the NP of
\* wing and tail is 21300/1225, fuselagePenalty is 0.3, npPosition rounds to
\* 17.09, and with static margin 10% cgPosition = npPosition - 2.0, which
\* rounds to 15.09.
C19_ConventionalAircraft ==
    LET r == resultsValue
    IN  ( /\ Shown /\ ~isFlyingWing
          /\ r.wing.acX = R(6) /\ r.wing.area = R(1000) /\ r.wing.mac = R(20)
          /\ tailAcX_Global(r.tail, distWingTail) = R(68)
          /\ r.tail.area = R(250)
          /\ tailEff = Frac(9, 10) /\ staticMargin = R(10) )
        => /\ RAdd(r.npPosition, r.fuselagePenalty) = RDiv(R(21300), R(1225))
           /\ r.fuselagePenalty = Frac(3, 10)
           /\ Round2(r.npPosition) = Frac(1709, 100)
           /\ r.cgPosition = RSub(r.npPosition, R(2))
           /\ Round2(r.cgPosition) = Frac(1509, 100)

\* The conventional aircraft has been computed.
C19_Witness ==
    /\ Shown /\ ConventionalAircraft
    /\ LET r == resultsValue
       IN  /\ r.wing.acX = R(6) /\ r.wing.area = R(1000) /\ r.wing.mac = R(20)
           /\ tailAcX_Global(r.tail, distWingTail) = R(68)
           /\ r.tail.area = R(250)

\* a <= b as JavaScript compares: false when either side is NaN.
RLe(a, b) == ~IsNaN(a) /\ ~IsNaN(b) /\ a[1] * b[2] <= b[1] * a[2]

\* C22 as stated: in conventional topology with wing.area >= 0,
\* tail.area >= 0, tailEff >= 0 and wing.area + tail.area*tailEff > 0, the
\* neutral point before the fuselage correction lies between the two
\* aerodynamic centres: min(wing.acX, distWingTail + tail.acX)
\* <= npPosition + fuselagePenalty <= max(wing.acX, distWingTail + tail.acX).
C22_AsStated ==
    (Shown /\ ~isFlyingWing) =>
        LET r    == resultsValue
            tAc  == RAdd(distWingTail, r.tail.acX)
            lo   == IF RLe(r.wing.acX, tAc) THEN r.wing.acX ELSE tAc
            hi   == IF RLe(r.wing.acX, tAc) THEN tAc ELSE r.wing.acX
            npWT == RAdd(r.npPosition, r.fuselagePenalty)
        IN  ( /\ RLe(Zero, r.wing.area) /\ RLe(Zero, r.tail.area)
              /\ RLe(Zero, tailEff)
              /\ RGt(WeightedArea(r), Zero) )
            => RLe(lo, npWT) /\ RLe(npWT, hi)

-----------------------------------------------------------------------------
(* The page under topology toggles and fuselage edits only, from           *)
(* the aircraft of construction and the two aircraft above.                *)

DefaultAircraft ==
    /\ isFlyingWing = FALSE
    /\ wingRoot = R(25)
    /\ wingPanels = <<Panel(R(18), R(4), R(40)), Panel(R(10), R(8), R(30))>>
    /\ tailRoot = R(12)
    /\ tailPanels = <<Panel(R(8), R(3), R(25))>>
    /\ distWingTail = R(65)
    /\ staticMargin = R(10)
    /\ tailEff = Frac(9, 10)

InitFrame ==
    /\ DefaultAircraft \/ ConventionalAircraft \/ ReflexedWing
    /\ fuseWidth = R(8)
    /\ fuseLength = R(90)
    /\ fuseNose = R(20)
    /\ results = Deps(isFlyingWing, wingRoot, wingPanels, tailRoot,
                      tailPanels, distWingTail, staticMargin, tailEff)
    /\ NoCall
    /\ pc = "page"
    /\ edits = 0
    /\ NoAnalysis

NextFrame ==
    \/ \E b \in BOOLEAN : SetIsFlyingWing(b)
    \/ \E v \in Typed : SetFuseWidth(v)
    \/ \E v \in Typed : SetFuseLength(v)
    \/ \E v \in Typed : SetFuseNose(v)

SpecFrame == InitFrame /\ [][NextFrame]_vars


\* The CG readout next to cgPosition:
\* (results.cgPosition / results.wing.mac) * 100, and its divisor.
percentMac(r) == RMul(RDiv(r.cgPosition, r.wing.mac), R(100))
ReadoutDivisors(r) == {r.wing.mac}

\* C29 as stated: whatever the inputs, a wing with mac = 0 included, the CG
\* readout with its percent-of-MAC figure is computed without a division by
\* zero.
C29_AsStated == Shown => Zero \notin ReadoutDivisors(resultsValue)

-----------------------------------------------------------------------------
(* Claims about the page.                                                  *)

\* C16: after any sequence of input edits (root chords, panel field updates,
\* add/remove panel, distance, static margin, tail efficiency, topology
\* toggle, and the fuselage fields) the memoised results (wing, tail,
\* npPosition, cgPosition, vBar, fuselagePenalty) are those computed from the
\* current inputs: the dependency values the memoised computation ran on are
\* the current ones, so the value in use equals a from-scratch computation
\* and is never stale.
C16_NeverStale ==
    results = Deps(isFlyingWing, wingRoot, wingPanels, tailRoot, tailPanels,
                   distWingTail, staticMargin, tailEff)

\* The tail efficiency and then a fuselage field have been edited.
C16_Witness ==
    /\ edits = 2
    /\ tailEff # Frac(9, 10)
    /\ fuseWidth # R(8)
    /\ results.tailEff = tailEff

PanelCountOk(ps) ==
    /\ Len(ps) >= 1 /\ Len(ps) <= 5
    /\ Len(ps) = 5 => addPanel(ps) = ps
    /\ Len(ps) = 1 => removePanel(ps) = ps

\* C17: for both the wing and the tail, after any sequence of addPanel,
\* removePanel and updatePanel operations the panel list has between 1 and 5
\* panels; addPanel on a 5-panel list and removePanel on a 1-panel list leave
\* the list unchanged.
C17_PanelCount == PanelCountOk(wingPanels) /\ PanelCountOk(tailPanels)

\* After edits, the wing has five panels and the tail is down to one, so
\* that a further + on the wing and a further - on the tail change nothing.
C17_Witness ==
    /\ edits = 2
    /\ Len(wingPanels) = 5 /\ addPanel(wingPanels) = wingPanels
    /\ Len(tailPanels) = 1 /\ removePanel(tailPanels) = tailPanels
    /\ tailPanels # <<Panel(R(8), R(3), R(25))>>

\* The inputs of the page other than the fuselage fields.
BalanceInputs ==
    <<isFlyingWing, wingRoot, wingPanels, tailRoot, tailPanels, distWingTail,
      staticMargin, tailEff>>

\* C23: the fuselage correction is exactly 0.015 * wing.mac in conventional
\* topology and is not derived from fuselage geometry: a configuration and
\* the one an edit of fuseWidth, fuseLength or fuseNose turns it into, equal
\* in everything else, have the same fuselagePenalty, npPosition, cgPosition
\* and vBar.
C23_FuselageNotAnInput ==
    [][ LET r == ResultsOf(results')
        IN  /\ ~isFlyingWing' =>
                 r.fuselagePenalty = RMul(Frac(15, 1000), r.wing.mac)
            /\ BalanceInputs' = BalanceInputs =>
                 BalanceOf(r) = BalanceOf(resultsValue) ]_vars

\* In conventional topology, with a fuselage penalty other than 0, the three
\* fuselage fields are no longer those of construction.
C23_Witness ==
    /\ pc = "page" /\ ~isFlyingWing
    /\ fuseWidth # R(8) /\ fuseLength # R(90)
    /\ Positive(resultsValue.fuselagePenalty)

\* C24: toggling the topology changes only isFlyingWing: tailRoot,
\* tailPanels, distWingTail, tailEff, staticMargin, all wing inputs and the
\* fuselage fields are left unchanged, and on the way back to conventional
\* the npPosition, cgPosition, vBar and fuselagePenalty in use are those of
\* the conventional computation on these unchanged inputs, the values in use
\* before the toggles.
C24_ToggleFrame ==
    [][ isFlyingWing' # isFlyingWing =>
          /\ UNCHANGED <<wingRoot, wingPanels, tailRoot, tailPanels,
                         distWingTail, staticMargin, tailEff,
                         fuseWidth, fuseLength, fuseNose>>
          /\ ~isFlyingWing' =>
                BalanceOf(ResultsOf(results'))
                  = BalanceOf(ComputeResults(FALSE, wingRoot, wingPanels, tailRoot,
                                             tailPanels, distWingTail, staticMargin,
                                             tailEff)) ]_vars

\* The aircraft of construction is conventional again after two clicks on
\* the topology buttons, with a tail volume other than 0.
C24_Witness ==
    /\ pc = "page" /\ edits = 2
    /\ DefaultAircraft
    /\ fuseWidth = R(8) /\ fuseLength = R(90) /\ fuseNose = R(20)
    /\ Positive(resultsValue.vBar)

AddThenRemove(ps) ==
    LET n     == Len(ps)
        added == addPanel(ps)
    IN  /\ (n >= 1 /\ n <= 4) =>
              /\ Len(added) = n + 1
              /\ added[n + 1] = [tip   |-> RMul(Frac(8, 10), ps[n].tip),
                                 sweep |-> Zero,
                                 span  |-> R(20)]
              /\ \A i \in 1..n : added[i] = ps[i]
              /\ Len(removePanel(added)) = n
              /\ \A i \in 1..n : removePanel(added)[i] = added[i]
              /\ removePanel(added) = ps
        /\ n >= 2 =>
              /\ Len(removePanel(ps)) = n - 1
              /\ \A i \in 1..(n - 1) : removePanel(ps)[i] = ps[i]

\* C25: on a panel list of length 1 to 4, addPanel appends exactly one panel
\* {tip = 0.8 * last panel's tip, sweep = 0, span = 20} and leaves every
\* existing panel unchanged, and removePanel removes only the last panel;
\* hence addPanel followed by removePanel restores the original list.
C25_AddRemove == AddThenRemove(wingPanels) /\ AddThenRemove(tailPanels)

\* The second wing panel has been edited and a third one added after it,
\* with 0.8 times the edited tip chord.
C25_Witness ==
    /\ edits = 2
    /\ Len(wingPanels) = 3
    /\ wingPanels[2].tip = R(2)
    /\ wingPanels[3] = Panel(Frac(16, 10), R(0), R(20))
    /\ removePanel(wingPanels)[2] = wingPanels[2]


-----------------------------------------------------------------------------
(* The AI analysis: App's page switch, the request state of OverallSetup,  *)
(* handleAIAnalyze and analyzeAircraftSetup.  A request is one call of     *)
(* handleAIAnalyze: the OverallSetup instance whose setters it closes      *)
(* over, what became of its call of generateContent, the promise           *)
(* analyzeAircraftSetup returned, and whether the handler has resumed      *)
(* after its await.                                                        *)

MaxRequests == 3
MaxMounts == 2

Pages == {"PROP", "CG", "OVERALL"}
ApiKeys == {"", "key"}
ResponseTexts == {"", "2212 920KV, 10x4.5 prop", "2814 1100KV, 9x6 prop"}

NoKeyMessage == "API Key not found. Please ensure the API_KEY environment variable is set."
NoAnalysisMessage == "No analysis could be generated."
ServiceErrorMessage == "An error occurred while contacting the analysis service. Please try again later."

\* Promises.
Pending == [state |-> "pending", value |-> ""]
Fulfilled(s) == [state |-> "fulfilled", value |-> s]
Rejected == [state |-> "rejected", value |-> ""]

\* What generateContent did: not called, called and awaited, resolved with
\* a response whose text is a string or undefined, or failed.
NotCalled == [kind |-> "none", text |-> ""]
Awaited == [kind |-> "awaited", text |-> ""]
WithText(t) == [kind |-> "text", text |-> t]
WithoutText == [kind |-> "undefined", text |-> ""]
Failed == [kind |-> "error", text |-> ""]
Responses == {WithText(t) : t \in ResponseTexts} \cup {WithoutText, Failed}

\* response.text || "No analysis could be generated."
TextOrDefault(response) ==
    IF response.kind = "undefined" \/ response.text = ""
    THEN NoAnalysisMessage
    ELSE response.text

\* analyzeAircraftSetup up to its first suspension: the early return
\* without a key, or the call of generateContent.
analyzeAircraftSetup(key) ==
    IF key = ""
    THEN [contacted |-> FALSE, response |-> NotCalled,
          promise |-> Fulfilled(NoKeyMessage)]
    ELSE [contacted |-> TRUE, response |-> Awaited, promise |-> Pending]

\* analyzeAircraftSetup that lets the failure of generateContent escape.
Settled_Uncaught(call, response) ==
    [call EXCEPT !.response = response,
                 !.promise = IF response.kind = "error"
                             THEN Rejected
                             ELSE Fulfilled(TextOrDefault(response))]

\* analyzeAircraftSetup from the settling of generateContent to its return.
Settled(call, response) ==
    [call EXCEPT !.response = response,
                 !.promise = IF response.kind = "error"
                             THEN Fulfilled(ServiceErrorMessage)
                             ELSE Fulfilled(TextOrDefault(response))]

Request(inst, call) ==
    [instance |-> inst, contacted |-> call.contacted,
     response |-> call.response, promise |-> call.promise, resumed |-> FALSE]

\* No handler waits on a settled promise: the microtask queue is empty, and
\* the next event can be handled.
Idle ==
    \A i \in 1..Len(requests) :
        requests[i].resumed \/ requests[i].promise.state = "pending"

InitAnalysis ==
    /\ InitPage
    /\ NoCall
    /\ pc = "page"
    /\ edits = 0
    /\ activePage = "PROP"
    /\ instance = 0
    /\ isAnalyzing = FALSE
    /\ aiAnalysis = ""
    /\ GEMINI_API_KEY \in ApiKeys
    /\ requests = <<>>

\* A click on a navigation button.  Leaving Setup unmounts OverallSetup and
\* its state is dropped; coming back mounts a new instance with the state
\* of construction.
SetActivePage(page) ==
    /\ Idle
    /\ activePage' = page
    /\ IF page = "OVERALL" /\ activePage # "OVERALL"
       THEN /\ instance < MaxMounts
            /\ instance' = instance + 1
            /\ isAnalyzing' = FALSE
            /\ aiAnalysis' = ""
       ELSE IF page # "OVERALL" /\ activePage = "OVERALL"
       THEN /\ isAnalyzing' = FALSE
            /\ aiAnalysis' = ""
            /\ UNCHANGED instance
       ELSE UNCHANGED <<instance, isAnalyzing, aiAnalysis>>
    /\ UNCHANGED <<pageVars, callVars, pc, edits, GEMINI_API_KEY, requests>>

\* A click on 'Calculate Setup', up to the await.
handleAIAnalyze ==
    /\ Idle
    /\ activePage = "OVERALL"
    /\ ~isAnalyzing
    /\ Len(requests) < MaxRequests
    /\ isAnalyzing' = TRUE
    /\ aiAnalysis' = ""
    /\ requests' = Append(requests,
                          Request(instance, analyzeAircraftSetup(GEMINI_API_KEY)))
    /\ UNCHANGED <<pageVars, callVars, pc, edits, activePage, instance,
                   GEMINI_API_KEY>>

\* The call of generateContent of request i settles.
GenerateContentSettles(i, response) ==
    /\ Idle
    /\ i \in 1..Len(requests)
    /\ requests[i].promise.state = "pending"
    /\ requests' = [requests EXCEPT ![i] =
                       [instance |-> @.instance, resumed |-> @.resumed,
                        contacted |-> Settled(@, response).contacted,
                        response |-> Settled(@, response).response,
                        promise |-> Settled(@, response).promise]]
    /\ UNCHANGED <<pageVars, callVars, pc, edits, activePage, instance,
                   isAnalyzing, aiAnalysis, GEMINI_API_KEY>>

\* handleAIAnalyze of request i after its await.  A rejected promise throws
\* out of the handler before its setters; the setters of an instance that
\* is no longer mounted change nothing.
ResumeHandler(i) ==
    /\ i \in 1..Len(requests)
    /\ ~requests[i].resumed
    /\ requests[i].promise.state # "pending"
    /\ requests' = [requests EXCEPT ![i].resumed = TRUE]
    /\ IF /\ requests[i].promise.state = "fulfilled"
          /\ activePage = "OVERALL"
          /\ requests[i].instance = instance
       THEN /\ aiAnalysis' = requests[i].promise.value
            /\ isAnalyzing' = FALSE
       ELSE UNCHANGED <<aiAnalysis, isAnalyzing>>
    /\ UNCHANGED <<pageVars, callVars, pc, edits, activePage, instance,
                   GEMINI_API_KEY>>

NextAnalysis ==
    \/ \E page \in Pages : SetActivePage(page)
    \/ handleAIAnalyze
    \/ \E i \in 1..MaxRequests, response \in Responses :
           GenerateContentSettles(i, response)
    \/ \E i \in 1..MaxRequests : ResumeHandler(i)

SpecAnalysis == InitAnalysis /\ [][NextAnalysis]_vars

\* The event loop runs the continuation of a settled await.
SpecAnalysisFair ==
    SpecAnalysis /\ \A i \in 1..MaxRequests : WF_vars(ResumeHandler(i))


-----------------------------------------------------------------------------
(* Claims about the AI analysis.                                           *)

\* C26: the promise of analyzeAircraftSetup is never rejected and, once
\* settled, holds a string: without an API key it is the 'API Key not
\* found' message and generateContent was not called; when generateContent
\* failed it is the fixed error message; when the response has an empty
\* text, or none, it is 'No analysis could be generated.'.
C26_AlwaysAString ==
    \A i \in 1..Len(requests) :
        LET r == requests[i]
        IN  /\ r.promise.state \in {"pending", "fulfilled"}
            /\ r.promise.state = "fulfilled" => r.promise.value # ""
            /\ GEMINI_API_KEY = "" =>
                   ~r.contacted /\ r.promise = Fulfilled(NoKeyMessage)
            /\ r.response.kind = "error" =>
                   r.promise = Fulfilled(ServiceErrorMessage)
            /\ r.response \in {WithText(""), WithoutText} =>
                   r.promise = Fulfilled(NoAnalysisMessage)
            /\ r.response.kind = "text" /\ r.response.text # "" =>
                   r.promise = Fulfilled(r.response.text)

\* One request whose service call failed and one whose response had an
\* empty text have both returned.
C26_Witness ==
    \E i, j \in 1..Len(requests) :
        /\ requests[i].response = Failed
        /\ requests[i].promise = Fulfilled(ServiceErrorMessage)
        /\ requests[j].response = WithText("")
        /\ requests[j].promise = Fulfilled(NoAnalysisMessage)


\* Request i has been started and analyzeAircraftSetup has returned for it;
\* its handler has not resumed yet.
Completed(i) ==
    /\ i <= Len(requests)
    /\ requests[i].promise.state # "pending"
    /\ ~requests[i].resumed

\* C27 as stated: every click on 'Calculate Setup' sets isAnalyzing and
\* clears aiAnalysis, and whenever the analysis call of a request has
\* completed, eventually isAnalyzing is false and aiAnalysis holds the
\* string the call returned.
C27_AsStated ==
    /\ [][handleAIAnalyze => isAnalyzing' /\ aiAnalysis' = ""]_vars
    /\ \A i \in 1..MaxRequests :
           Completed(i) ~> /\ i <= Len(requests)
                           /\ ~isAnalyzing
                           /\ aiAnalysis = requests[i].promise.value


\* The requests whose handler has not yet run to its end.
InFlight == {i \in 1..Len(requests) : ~requests[i].resumed}

\* C28 as stated: at most one analysis request is in flight at any time, no
\* handleAIAnalyze starts while isAnalyzing is true, and a displayed
\* aiAnalysis is the string returned to the most recently started request.
C28_AsStated ==
    /\ Cardinality(InFlight) <= 1
    /\ isAnalyzing => ~ENABLED handleAIAnalyze
    /\ aiAnalysis # "" =>
           /\ requests # <<>>
           /\ requests[Len(requests)].resumed
           /\ requests[Len(requests)].promise = Fulfilled(aiAnalysis)

====
